---- MODULE Spec2Model ----
(***************************************************************************)
(* Model of the DATIM metadata synchronisation scripts:                    *)
(*   - DatimSyncMer.dhis2diff_mer (src/datimsyncmer.py), the transform of   *)
(*     a DHIS2 export into the concept / mapping / reference partitions of  *)
(*     the MER import batch;                                                *)
(*   - DatimImap, DatimImapFactory, DatimImapDiff (src/datim/datimimap.py); *)
(*   - the bulk import script (src/importinit.py).                          *)
(* Python dicts are functions whose DOMAIN is the set of keys present, so   *)
(* "key in dict" is "key \in DOMAIN dict" and a missing key is a KeyError.  *)
(* Strings built by concatenation are tuples of their parts.                *)
(***************************************************************************)
EXTENDS Integers, Sequences, FiniteSets, TLC

VARIABLES
    \* ---- dhis2diff_mer
    new_dhis2_export,       \* json.load(input_file): [dataElements |-> <<de, ...>>]
    dhis2_diff,             \* self.dhis2_diff[IMPORT_BATCH_MER]: the three partitions
    num_indicators, num_disaggregates, num_mappings,
    num_indicator_refs, num_disaggregate_refs,
    pc,                     \* position in dhis2diff_mer
    de_idx,                 \* position of "for de in ..."
    coc_idx,                \* position of "for coc in ..."
    dse_idx,                \* position of "for dse in ..."
    ref_idx,                \* position of "for disaggregate_concept_url in ..."
    indicator_disaggregate_concept_urls,
    run,                    \* which call of dhis2diff_mer on this export is running
    first_diff,             \* dhis2_diff as the first call left it
    \* ---- datimimap
    imap_a, imap_b,         \* two DatimImap objects (NoImap until constructed)
    imap_diff,              \* the DatimImapDiff of imap_a against imap_b
    valid_result,           \* the last call of DatimImap.is_valid and its outcome
    imap_raised,            \* the exception the last call raised, or None
    \* ---- importinit
    ipc,                    \* position in the import script
    file_idx,               \* position of "for import_filename in ..."
    resource_list,          \* the combined resource list
    posted,                 \* the lists the bulk importer has received
    task_id,                \* the task id the submit returned
    waited,                 \* seconds get_bulk_import_results has waited
    import_results,         \* what get_bulk_import_results returned
    printed                 \* what the script has printed

mer_counts == <<num_indicators, num_disaggregates, num_mappings,
                num_indicator_refs, num_disaggregate_refs>>
mer_locals == <<de_idx, coc_idx, dse_idx, ref_idx, indicator_disaggregate_concept_urls>>
mer_vars == <<new_dhis2_export, dhis2_diff, mer_counts, pc, mer_locals, run, first_diff>>

imap_vars == <<imap_a, imap_b, imap_diff, valid_result, imap_raised>>
import_vars == <<ipc, file_idx, resource_list, posted, task_id, waited, import_results, printed>>

vars == <<mer_vars, imap_vars, import_vars>>

\* ------------------------------------------------------------------ bounds
MaxElements == 2    \* data elements in an export
MaxCocs == 2        \* category-option-combos in an export, over all its elements
MaxLinks == 2       \* dataset-element links in an export, over all its elements

\* ------------------------------------------------------------------ dicts
None == "None"
\* A field that holds either None or a list.
NoList == [is_none |-> TRUE, items |-> <<>>]
List(items) == [is_none |-> FALSE, items |-> items]
EmptyDict == [x \in {} |-> x]

\* dict[key] = value
Put(dict, key, value) ==
    [x \in DOMAIN dict \cup {key} |-> IF x = key THEN value ELSE dict[x]]

SeqsUpTo(S, n) == UNION {[1..m -> S] : m \in 0..n}

\* ------------------------------------------------------------------ inputs
\* The active dataset table (conversion_attr['ocl_dataset_repos']):
\* dataset id -> the OCL collection it is synchronised with.
ocl_dataset_repos == [dsA |-> [id |-> "COL1"], dsB |-> [id |-> "COL2"]]

DataSetIds == {"dsA", "dsB", "dsX"}
DeCodes == {"A", "B"}

\* The category-option-combos an export can list. The second and the third
\* carry the same code.
CategoryOptionCombos ==
    { [id |-> <<"coc", 1>>, code |-> "B", name |-> <<"coc name", 1>>],
      [id |-> <<"coc", 2>>, code |-> "C", name |-> <<"coc name", 2>>],
      [id |-> <<"coc", 3>>, code |-> "C", name |-> <<"coc name", 3>>] }

\* A data element's own fields; DHIS2 uids are unique, the n-th element of an
\* export is the object de<n>. One in three has a description, one an empty
\* description, one has no description field.
DeBase(n) ==
    LET base == [id |-> <<"de", n>>, name |-> <<"name", n>>, shortName |-> <<"short", n>>]
    IN  CASE n % 3 = 1 -> base @@ [description |-> "a description"]
          [] n % 3 = 2 -> base
          [] OTHER     -> base @@ [description |-> ""]

CodeParts == {EmptyDict} \cup {[code |-> c] : c \in DeCodes}
\* A categoryCombo of n option-combos; a data element without one lists none.
CategoryComboParts(n) ==
    (IF n = 0 THEN {EmptyDict} ELSE {}) \cup
    {[categoryCombo |-> [categoryOptionCombos |-> s]] : s \in [1..n -> CategoryOptionCombos]}
\* n dataset-element links; a data element without dataSetElements has none.
DataSetElementParts(n) ==
    (IF n = 0 THEN {EmptyDict} ELSE {}) \cup
    {[dataSetElements |-> s] : s \in [1..n -> {[dataSet |-> [id |-> ds]] : ds \in DataSetIds}]}

\* The data elements that can stand at position pos with nc option-combos and
\* nl links; each of code, categoryCombo, dataSetElements may be missing.
DataElements(pos, nc, nl) ==
    { DeBase(pos) @@ c @@ cc @@ dse :
        c \in CodeParts, cc \in CategoryComboParts(nc), dse \in DataSetElementParts(nl) }

RECURSIVE IsExport(_, _, _, _)
\* new_dhis2_export is a list of at most MaxElements data elements that starts
\* with prefix, with at most nc option-combos and nl links after the prefix.
IsExport(prefix, pos, nc, nl) ==
    \/ new_dhis2_export = [dataElements |-> prefix]
    \/ /\ pos <= MaxElements
       /\ \E a \in 0..nc, b \in 0..nl : \E de \in DataElements(pos, a, b) :
             IsExport(Append(prefix, de), pos + 1, nc - a, nl - b)

\* ------------------------------------------------------------------ records
ConceptUrl(concept_id) == <<"/orgs/PEPFAR/sources/MER/concepts/", concept_id, "/">>

Name(name, name_type, locale_preferred) ==
    [name |-> name, name_type |-> name_type, locale |-> "en",
     locale_preferred |-> locale_preferred, external_id |-> None]

HasDescription(de) == "description" \in DOMAIN de /\ de.description # ""

IndicatorConcept(de) ==
    [type |-> "Concept", id |-> de.code, concept_class |-> "Indicator",
     datatype |-> "Numeric", owner |-> "PEPFAR", owner_type |-> "Organization",
     source |-> "MER", retired |-> FALSE, external_id |-> de.id,
     descriptions |->
        IF HasDescription(de)
        THEN List(<<[description |-> de.description, description_type |-> "Description",
                     locale |-> "en", locale_preferred |-> TRUE, external_id |-> None]>>)
        ELSE NoList,
     names |-> <<Name(de.name, "Fully Specified", TRUE), Name(de.shortName, "Short", FALSE)>>]

DisaggregateConcept(coc) ==
    [type |-> "Concept", id |-> coc.code, concept_class |-> "Disaggregate",
     datatype |-> "None", owner |-> "PEPFAR", owner_type |-> "Organization",
     source |-> "MER", retired |-> FALSE, descriptions |-> NoList,
     external_id |-> coc.id,
     names |-> <<Name(coc.name, "Fully Specified", TRUE)>>]

map_type == "Has Option"

\* Faulty variant: the mapping key leaves out the indicator it starts from.
MappingKeyWithoutFrom(indicator_concept_url, disaggregate_concept_url) ==
    <<"/orgs/PEPFAR/sources/MER/mappings/?from=", "&maptype=", map_type,
      "&to=", disaggregate_concept_url>>

DisaggregateMappingKey(indicator_concept_url, disaggregate_concept_url) ==
    <<"/orgs/PEPFAR/sources/MER/mappings/?from=", indicator_concept_url,
      "&maptype=", map_type, "&to=", disaggregate_concept_url>>

DisaggregateMapping(indicator_concept_url, disaggregate_concept_url) ==
    [type |-> "Mapping", owner |-> "PEPFAR", owner_type |-> "Organization",
     source |-> "MER", map_type |-> map_type,
     from_concept_url |-> indicator_concept_url,
     to_concept_url |-> disaggregate_concept_url]

\* DatimSync.get_concept_reference_json: the key and the record of the
\* reference that includes a concept in a collection.
ConceptReferenceKey(owner_id, collection_id, concept_url) ==
    <<"/orgs/", owner_id, "/collections/", collection_id, "/references/?concept=", concept_url>>
ConceptReference(owner_id, collection_id, concept_url) ==
    [owner |-> owner_id, collection_id |-> collection_id, concept_url |-> concept_url]

\* ------------------------------------------------------------------ stores
\* Faulty variant: the indicator concept is built but never stored.
StoreIndicatorLost(concepts, key, concept) == concepts

\* Faulty variant: storing over an indicator that is already there keeps its names and
\* adds the new ones.
StoreIndicatorMergingNames(concepts, key, concept) ==
    IF key \in DOMAIN concepts /\ concepts[key].concept_class = "Indicator"
    THEN Put(concepts, key, [concept EXCEPT !.names = concepts[key].names \o @])
    ELSE Put(concepts, key, concept)

\* self.dhis2_diff[MER][Concept][indicator_concept_key] = indicator_concept
StoreIndicator(concepts, key, concept) == Put(concepts, key, concept)

\* Faulty variant: the disaggregate concept is stored whether or not it is defined.
StoreDisaggregateAlways(concepts, key, concept) == Put(concepts, key, concept)

\* "Only build the disaggregate concept if it has not already been defined"
StoreDisaggregate(concepts, key, concept) ==
    IF key \notin DOMAIN concepts THEN Put(concepts, key, concept) ELSE concepts

StoreMapping(mappings, key, mapping) == Put(mappings, key, mapping)

StoreIndicatorRef(references, key, reference) == Put(references, key, reference)

StoreDisaggregateRef(references, key, reference) ==
    IF key \notin DOMAIN references THEN Put(references, key, reference) ELSE references

\* "if ds['id'] not in ocl_dataset_repos: continue"
IsActiveDataset(ds_id) == ds_id \in DOMAIN ocl_dataset_repos
\* Faulty variant: the dataset id is taken for the collection id.
CollectionIdIsDatasetId(ds_id) == ds_id
CollectionId(ds_id) == ocl_dataset_repos[ds_id].id

EmptyDiff == [concepts |-> EmptyDict, mappings |-> EmptyDict, references |-> EmptyDict]

\* ------------------------------------------------------------------ dhis2diff_mer
DataElementsList == new_dhis2_export.dataElements
CurDe == DataElementsList[de_idx]
CurCocs == CurDe.categoryCombo.categoryOptionCombos
CurCoc == CurCocs[coc_idx]
CurLinks == CurDe.dataSetElements
CurDataSet == CurLinks[dse_idx].dataSet
indicator_concept_url == ConceptUrl(CurDe.code)

MerInit ==
    /\ IsExport(<<>>, 1, MaxCocs, MaxLinks)
    /\ dhis2_diff = EmptyDiff
    /\ num_indicators = 0 /\ num_disaggregates = 0 /\ num_mappings = 0
    /\ num_indicator_refs = 0 /\ num_disaggregate_refs = 0
    /\ pc = "de" /\ de_idx = 1 /\ coc_idx = 1 /\ dse_idx = 1 /\ ref_idx = 1
    /\ indicator_disaggregate_concept_urls = <<>>
    /\ run = 1
    /\ first_diff = EmptyDiff

\* A KeyError leaves the method; nothing that was stored is taken back.
Raise ==
    /\ pc' = "error"
    /\ UNCHANGED <<imap_vars, import_vars, new_dhis2_export, dhis2_diff, mer_counts, mer_locals, run, first_diff>>

\* de['code'] of a data element without a code
MissingCode ==
    /\ pc = "de" /\ de_idx <= Len(DataElementsList)
    /\ "code" \notin DOMAIN CurDe
    /\ Raise

\* One data element becomes an Indicator concept.
IndicatorStep ==
    /\ pc = "de" /\ de_idx <= Len(DataElementsList)
    /\ "code" \in DOMAIN CurDe
    /\ dhis2_diff' = [dhis2_diff EXCEPT !.concepts =
                        StoreIndicator(@, indicator_concept_url, IndicatorConcept(CurDe))]
    /\ num_indicators' = num_indicators + 1
    /\ indicator_disaggregate_concept_urls' = <<>>
    /\ coc_idx' = 1
    /\ pc' = "coc"
    /\ UNCHANGED <<imap_vars, import_vars, new_dhis2_export, num_disaggregates, num_mappings, num_indicator_refs,
                   num_disaggregate_refs, de_idx, dse_idx, ref_idx, run, first_diff>>

\* de['categoryCombo'] of a data element without a category combo
MissingCategoryCombo ==
    /\ pc = "coc"
    /\ "categoryCombo" \notin DOMAIN CurDe
    /\ Raise

\* One category-option-combo: its Disaggregate concept, unless already defined.
DisaggregateStep ==
    /\ pc = "coc"
    /\ "categoryCombo" \in DOMAIN CurDe
    /\ coc_idx <= Len(CurCocs)
    /\ LET disaggregate_concept_url == ConceptUrl(CurCoc.code)
       IN  /\ indicator_disaggregate_concept_urls' =
                 Append(indicator_disaggregate_concept_urls, disaggregate_concept_url)
           /\ dhis2_diff' = [dhis2_diff EXCEPT !.concepts =
                 StoreDisaggregate(@, disaggregate_concept_url, DisaggregateConcept(CurCoc))]
           /\ num_disaggregates' =
                 IF disaggregate_concept_url \notin DOMAIN dhis2_diff.concepts
                 THEN num_disaggregates + 1 ELSE num_disaggregates
    /\ pc' = "map"
    /\ UNCHANGED <<imap_vars, import_vars, new_dhis2_export, num_indicators, num_mappings, num_indicator_refs,
                   num_disaggregate_refs, de_idx, coc_idx, dse_idx, ref_idx, run, first_diff>>

\* The "Has Option" mapping from the indicator to the option-combo's concept.
MappingStep ==
    /\ pc = "map"
    /\ LET disaggregate_concept_url == ConceptUrl(CurCoc.code)
       IN  dhis2_diff' = [dhis2_diff EXCEPT !.mappings =
                 StoreMapping(@,
                     DisaggregateMappingKey(indicator_concept_url, disaggregate_concept_url),
                     DisaggregateMapping(indicator_concept_url, disaggregate_concept_url))]
    /\ num_mappings' = num_mappings + 1
    /\ coc_idx' = coc_idx + 1
    /\ pc' = "coc"
    /\ UNCHANGED <<imap_vars, import_vars, new_dhis2_export, num_indicators, num_disaggregates, num_indicator_refs,
                   num_disaggregate_refs, de_idx, dse_idx, ref_idx,
                   indicator_disaggregate_concept_urls, run, first_diff>>

\* The option-combo loop is exhausted.
CocsDone ==
    /\ pc = "coc"
    /\ "categoryCombo" \in DOMAIN CurDe
    /\ coc_idx > Len(CurCocs)
    /\ dse_idx' = 1
    /\ pc' = "dse"
    /\ UNCHANGED <<imap_vars, import_vars, new_dhis2_export, dhis2_diff, mer_counts, de_idx, coc_idx, ref_idx,
                   indicator_disaggregate_concept_urls, run, first_diff>>

\* de['dataSetElements'] of a data element without dataset links
MissingDataSetElements ==
    /\ pc = "dse"
    /\ "dataSetElements" \notin DOMAIN CurDe
    /\ Raise

\* Faulty variant: a skipped link is counted as an indicator reference.
SkipLinkCounted ==
    /\ pc = "dse"
    /\ "dataSetElements" \in DOMAIN CurDe
    /\ dse_idx <= Len(CurLinks)
    /\ ~IsActiveDataset(CurDataSet.id)
    /\ dse_idx' = dse_idx + 1
    /\ num_indicator_refs' = num_indicator_refs + 1
    /\ UNCHANGED <<imap_vars, import_vars, new_dhis2_export, dhis2_diff, num_indicators,
                   num_disaggregates, num_mappings, num_disaggregate_refs, pc, de_idx,
                   coc_idx, ref_idx, indicator_disaggregate_concept_urls, run, first_diff>>

\* A link to a dataset that is not in the active dataset table: continue.
SkipLink ==
    /\ pc = "dse"
    /\ "dataSetElements" \in DOMAIN CurDe
    /\ dse_idx <= Len(CurLinks)
    /\ ~IsActiveDataset(CurDataSet.id)
    /\ dse_idx' = dse_idx + 1
    /\ UNCHANGED <<imap_vars, import_vars, new_dhis2_export, dhis2_diff, mer_counts, pc, de_idx, coc_idx, ref_idx,
                   indicator_disaggregate_concept_urls, run, first_diff>>

\* A link to an active dataset: the indicator's reference in its collection.
IndicatorRefStep ==
    /\ pc = "dse"
    /\ "dataSetElements" \in DOMAIN CurDe
    /\ dse_idx <= Len(CurLinks)
    /\ IsActiveDataset(CurDataSet.id)
    /\ LET collection_id == CollectionId(CurDataSet.id)
       IN  dhis2_diff' = [dhis2_diff EXCEPT !.references =
                 StoreIndicatorRef(@,
                     ConceptReferenceKey("PEPFAR", collection_id, indicator_concept_url),
                     ConceptReference("PEPFAR", collection_id, indicator_concept_url))]
    /\ num_indicator_refs' = num_indicator_refs + 1
    /\ ref_idx' = 1
    /\ pc' = "ref"
    /\ UNCHANGED <<imap_vars, import_vars, new_dhis2_export, num_indicators, num_disaggregates, num_mappings,
                   num_disaggregate_refs, de_idx, coc_idx, dse_idx,
                   indicator_disaggregate_concept_urls, run, first_diff>>

\* The reference of one of the indicator's disaggregates in the same collection.
DisaggregateRefStep ==
    /\ pc = "ref"
    /\ ref_idx <= Len(indicator_disaggregate_concept_urls)
    /\ LET collection_id == CollectionId(CurDataSet.id)
           disaggregate_concept_url == indicator_disaggregate_concept_urls[ref_idx]
           disaggregate_ref_key ==
               ConceptReferenceKey("PEPFAR", collection_id, disaggregate_concept_url)
       IN  /\ dhis2_diff' = [dhis2_diff EXCEPT !.references =
                 StoreDisaggregateRef(@, disaggregate_ref_key,
                     ConceptReference("PEPFAR", collection_id, disaggregate_concept_url))]
           /\ num_disaggregate_refs' =
                 IF disaggregate_ref_key \notin DOMAIN dhis2_diff.references
                 THEN num_disaggregate_refs + 1 ELSE num_disaggregate_refs
    /\ ref_idx' = ref_idx + 1
    /\ UNCHANGED <<imap_vars, import_vars, new_dhis2_export, num_indicators, num_disaggregates, num_mappings,
                   num_indicator_refs, pc, de_idx, coc_idx, dse_idx,
                   indicator_disaggregate_concept_urls, run, first_diff>>

\* The disaggregate reference loop is exhausted: next link.
RefsDone ==
    /\ pc = "ref"
    /\ ref_idx > Len(indicator_disaggregate_concept_urls)
    /\ dse_idx' = dse_idx + 1
    /\ pc' = "dse"
    /\ UNCHANGED <<imap_vars, import_vars, new_dhis2_export, dhis2_diff, mer_counts, de_idx, coc_idx, ref_idx,
                   indicator_disaggregate_concept_urls, run, first_diff>>

\* The link loop is exhausted: next data element.
LinksDone ==
    /\ pc = "dse"
    /\ "dataSetElements" \in DOMAIN CurDe
    /\ dse_idx > Len(CurLinks)
    /\ de_idx' = de_idx + 1
    /\ pc' = "de"
    /\ UNCHANGED <<imap_vars, import_vars, new_dhis2_export, dhis2_diff, mer_counts, coc_idx, dse_idx, ref_idx,
                   indicator_disaggregate_concept_urls, run, first_diff>>

\* Every data element is transformed: return True.
ReturnTrue ==
    /\ pc = "de" /\ de_idx > Len(DataElementsList)
    /\ pc' = "done"
    /\ UNCHANGED <<imap_vars, import_vars, new_dhis2_export, dhis2_diff, mer_counts, mer_locals, run, first_diff>>

\* dhis2diff_mer is called again on the same export and the same self.dhis2_diff.
SecondRun ==
    /\ pc = "done" /\ run = 1
    /\ run' = 2
    /\ first_diff' = dhis2_diff
    /\ num_indicators' = 0 /\ num_disaggregates' = 0 /\ num_mappings' = 0
    /\ num_indicator_refs' = 0 /\ num_disaggregate_refs' = 0
    /\ pc' = "de" /\ de_idx' = 1
    /\ UNCHANGED <<imap_vars, import_vars, new_dhis2_export, dhis2_diff, coc_idx, dse_idx, ref_idx,
                   indicator_disaggregate_concept_urls>>

MerNext ==
    \/ MissingCode \/ IndicatorStep
    \/ MissingCategoryCombo \/ DisaggregateStep \/ MappingStep \/ CocsDone
    \/ MissingDataSetElements \/ SkipLink \/ IndicatorRefStep
    \/ DisaggregateRefStep \/ RefsDone \/ LinksDone
    \/ ReturnTrue \/ SecondRun

\* ------------------------------------------------------------------ importinit
import_filenames == <<"init/pepfar_org.json", "init/datim_moh_fy18.json",
                      "init/datim_moh_fy19.json">>
delay_seconds == 5
max_wait_seconds == 800

MaxResources == 1   \* resources in one import file

ImportInit ==
    /\ ipc = "load" /\ file_idx = 1 /\ resource_list = <<>> /\ posted = <<>>
    /\ task_id = None /\ waited = 0 /\ import_results = None /\ printed = <<>>

MerIdle ==
    /\ new_dhis2_export = [dataElements |-> <<>>]
    /\ dhis2_diff = EmptyDiff
    /\ num_indicators = 0 /\ num_disaggregates = 0 /\ num_mappings = 0
    /\ num_indicator_refs = 0 /\ num_disaggregate_refs = 0
    /\ pc = "de" /\ de_idx = 1 /\ coc_idx = 1 /\ dse_idx = 1 /\ ref_idx = 1
    /\ indicator_disaggregate_concept_urls = <<>>
    /\ run = 1
    /\ first_diff = EmptyDiff

\* An uncaught exception ends the script.
Fail ==
    /\ ipc' = "failed"
    /\ UNCHANGED <<mer_vars, imap_vars, file_idx, resource_list, posted, task_id, waited,
                   import_results, printed>>

\* resource_list = resource_list + OclJsonResourceList.load_from_file(...)
LoadFile ==
    /\ ipc = "load" /\ file_idx <= Len(import_filenames)
    /\ \E n \in 0..MaxResources :
          resource_list' = resource_list \o [r \in 1..n |-> <<import_filenames[file_idx], r>>]
    /\ file_idx' = file_idx + 1
    /\ UNCHANGED <<mer_vars, imap_vars, ipc, posted, task_id, waited, import_results, printed>>

\* load_from_file on a file that cannot be read
LoadFileFails ==
    /\ ipc = "load" /\ file_idx <= Len(import_filenames)
    /\ Fail

\* Faulty variant: the list is submitted without looking at it.
TruthyAlways(list) == TRUE

\* "if resource_list:"
Truthy(list) == Len(list) > 0

\* The list is empty: nothing is submitted and the script ends.
NothingToImport ==
    /\ ipc = "load" /\ file_idx > Len(import_filenames)
    /\ ~Truthy(resource_list)
    /\ ipc' = "done"
    /\ UNCHANGED <<mer_vars, imap_vars, file_idx, resource_list, posted, task_id, waited,
                   import_results, printed>>

\* OclBulkImporter.post(input_list=resource_list, ...)
Post ==
    /\ ipc = "load" /\ file_idx > Len(import_filenames)
    /\ Truthy(resource_list)
    /\ posted' = Append(posted, resource_list)
    /\ ipc' = "task"
    /\ UNCHANGED <<mer_vars, imap_vars, file_idx, resource_list, task_id, waited,
                   import_results, printed>>

\* task_id = bulk_import_response.json()['task'], then it is printed
TaskId ==
    /\ ipc = "task"
    /\ task_id' = "task"
    /\ printed' = Append(printed, "BULK IMPORT TASK ID")
    /\ ipc' = "poll"
    /\ UNCHANGED <<mer_vars, imap_vars, file_idx, resource_list, posted, waited, import_results>>

\* The response holds no task id (the submit was refused): KeyError.
NoTaskId ==
    /\ ipc = "task"
    /\ Fail

\* get_bulk_import_results(task_id, delay_seconds=5, max_wait_seconds=800):
\* one wait of delay_seconds and one request for the task's results, while
\* the wait budget lasts.
WithinBudget == waited + delay_seconds < max_wait_seconds

PollPending ==
    /\ ipc = "poll" /\ WithinBudget
    /\ waited' = waited + delay_seconds
    /\ UNCHANGED <<mer_vars, imap_vars, ipc, file_idx, resource_list, posted, task_id,
                   import_results, printed>>

PollComplete ==
    /\ ipc = "poll" /\ WithinBudget
    /\ waited' = waited + delay_seconds
    /\ import_results' = "results"
    /\ ipc' = "results"
    /\ UNCHANGED <<mer_vars, imap_vars, file_idx, resource_list, posted, task_id, printed>>

\* The request for the results fails for good: the call raises.
PollFails ==
    /\ ipc = "poll" /\ WithinBudget
    /\ Fail

\* The wait budget is used up: the call returns None.
PollTimeout ==
    /\ ipc = "poll" /\ ~WithinBudget
    /\ import_results' = None
    /\ ipc' = "results"
    /\ UNCHANGED <<mer_vars, imap_vars, file_idx, resource_list, posted, task_id, waited,
                   printed>>

\* "if import_results: print import_results.display_report()"
Report ==
    /\ ipc = "results"
    /\ printed' = IF import_results # None THEN Append(printed, "report") ELSE printed
    /\ ipc' = "done"
    /\ UNCHANGED <<mer_vars, imap_vars, file_idx, resource_list, posted, task_id, waited,
                   import_results>>

ImportNext ==
    \/ LoadFile \/ LoadFileFails \/ NothingToImport \/ Post \/ TaskId \/ NoTaskId
    \/ PollPending \/ PollComplete \/ PollFails \/ PollTimeout \/ Report


\* ------------------------------------------------------------------ datimimap
IMAP_FIELD_NAMES ==
    <<"DATIM_Indicator_Category", "DATIM_Indicator_ID", "DATIM_Disag_ID",
      "DATIM_Disag_Name", "Operation", "MOH_Indicator_ID", "MOH_Indicator_Name",
      "MOH_Disag_ID", "MOH_Disag_Name">>
FieldNameSet == {IMAP_FIELD_NAMES[n] : n \in DOMAIN IMAP_FIELD_NAMES}

MaxRows == 2        \* rows of an I-MAP

Periods == {"FY17", "FY18", ""}
\* The column sets a row can have: every field, no "Operation", no first field.
RowKeySets ==
    {FieldNameSet, FieldNameSet \ {"Operation"}, FieldNameSet \ {IMAP_FIELD_NAMES[1]}}
\* Two complete rows with different values, and one row for each other column set.
Rows == {[f \in FieldNameSet |-> v] : v \in {"x", "y"}}
        \cup {[f \in K |-> "x"] : K \in RowKeySets}

\* What a caller can pass as imap_data: a csv.DictReader (every row has the
\* header's columns), a list of rows, or anything else (None is the default).
ImapDataInputs ==
    {[kind |-> "DictReader", rows |-> rows] :
        rows \in {r \in SeqsUpTo(Rows, MaxRows) :
                    \A m, n \in DOMAIN r : DOMAIN r[m] = DOMAIN r[n]}}
    \cup {[kind |-> "list", rows |-> rows] : rows \in SeqsUpTo(Rows, MaxRows)}
    \cup {[kind |-> "other", rows |-> <<>>]}

NoImap == [constructed |-> FALSE]
NoDiff == [constructed |-> FALSE]
NoResult == [called |-> FALSE]

\* DatimImapFactory.is_valid_imap_period
is_valid_imap_period(period) == period = "FY17"

\* DatimImap.__init__ with set_imap_data: the object, or NoImap when
\* set_imap_data raises. The period is stored as given.
DatimImap(period, imap_data) ==
    IF imap_data.kind \in {"DictReader", "list"}
    THEN [constructed |-> TRUE, country_code |-> "", country_org |-> "",
          period |-> period, imap_data |-> imap_data.rows]
    ELSE NoImap

ImapInit ==
    /\ imap_a = NoImap /\ imap_b = NoImap /\ imap_diff = NoDiff /\ imap_raised = None
    /\ valid_result = NoResult

Assign(slot, obj) ==
    /\ (IF slot = "a" THEN imap_a ELSE imap_b) = NoImap
    /\ IF obj.constructed
       THEN /\ imap_a' = (IF slot = "a" THEN obj ELSE imap_a)
            /\ imap_b' = (IF slot = "b" THEN obj ELSE imap_b)
            /\ imap_raised' = None
       ELSE /\ imap_raised' = "Exception"
            /\ UNCHANGED <<imap_a, imap_b>>

\* imap = DatimImap(period=..., imap_data=...)
Construct ==
    /\ \E slot \in {"a", "b"}, period \in Periods, imap_data \in ImapDataInputs :
          Assign(slot, DatimImap(period, imap_data))
    /\ UNCHANGED <<mer_vars, import_vars, imap_diff, valid_result>>

\* imap = DatimImapFactory.load_imap_from_csv(csv_filename=..., period=...)
load_imap_from_csv ==
    /\ \E slot \in {"a", "b"}, period \in Periods, imap_data \in ImapDataInputs :
          /\ imap_data.kind = "DictReader"
          /\ Assign(slot, DatimImap(period, imap_data))
    /\ UNCHANGED <<mer_vars, import_vars, imap_diff, valid_result>>

\* DatimImapFactory.load_imap_from_ocl: DatimImapExport is not imported (the
\* import is commented out), the call raises NameError.
load_imap_from_ocl ==
    /\ imap_raised' = "NameError"
    /\ UNCHANGED <<mer_vars, import_vars, imap_a, imap_b, imap_diff, valid_result>>

\* DatimImapDiff.diff
diff(a, b) == None

\* imap_a.diff(imap_b): DatimImapDiff(imap_a, imap_b)
Diff ==
    /\ imap_a.constructed /\ imap_b.constructed
    /\ imap_diff = NoDiff
    /\ imap_diff' = [constructed |-> TRUE, imap_a |-> imap_a, imap_b |-> imap_b,
                     diff_data |-> diff(imap_a, imap_b)]
    /\ imap_raised' = None
    /\ UNCHANGED <<mer_vars, import_vars, imap_a, imap_b, valid_result>>

\* The outcomes of a call: a returned boolean, or an Exception with its message
\* "Missing field '%s' on row %s of input file" % (field_name, line_number).
Returned(value) == [raised |-> FALSE, value |-> value, message |-> <<>>]
Raised(field_name, line_number) ==
    [raised |-> TRUE, value |-> FALSE,
     message |-> <<"Missing field", field_name, "on row", line_number>>]

\* Faulty variant: only the "Operation" field is looked for.
MissingOperationOnly(row, n) == IF "Operation" \notin DOMAIN row THEN 5 ELSE 0

\* for field_name in self.IMAP_FIELD_NAMES: if field_name not in row
\* The position from n on of the first field the row lacks, 0 if it has them all.
RECURSIVE MissingField(_, _)
MissingField(row, n) ==
    IF n > Len(IMAP_FIELD_NAMES) THEN 0
    ELSE IF IMAP_FIELD_NAMES[n] \notin DOMAIN row THEN n
    ELSE MissingField(row, n + 1)

\* for row in self.__imap_data, from the row numbered line_number on.
RECURSIVE CheckRows(_, _, _)
CheckRows(imap_data, line_number, throw_exception_on_error) ==
    IF line_number > Len(imap_data) THEN Returned(TRUE)
    ELSE LET n == MissingField(imap_data[line_number], 1)
         IN  IF n # 0
             THEN IF throw_exception_on_error
                  THEN Raised(IMAP_FIELD_NAMES[n], line_number)
                  ELSE Returned(FALSE)
             ELSE CheckRows(imap_data, line_number + 1, throw_exception_on_error)

\* DatimImap.is_valid
is_valid(imap, throw_exception_on_error) ==
    IF imap.imap_data # <<>>
    THEN CheckRows(imap.imap_data, 1, throw_exception_on_error)
    ELSE Returned(FALSE)

\* imap.is_valid(throw_exception_on_error=...)
IsValid ==
    /\ \E slot \in {"a", "b"}, throw_exception_on_error \in BOOLEAN :
          LET imap == IF slot = "a" THEN imap_a ELSE imap_b
              outcome == is_valid(imap, throw_exception_on_error)
          IN  /\ imap.constructed
              /\ valid_result' = [called |-> TRUE, slot |-> slot, imap |-> imap,
                                  throw_exception_on_error |-> throw_exception_on_error,
                                  outcome |-> outcome]
              /\ imap_raised' = IF outcome.raised THEN "Exception" ELSE None
    /\ UNCHANGED <<mer_vars, import_vars, imap_a, imap_b, imap_diff>>


ImapNext == Construct \/ load_imap_from_csv \/ load_imap_from_ocl \/ Diff \/ IsValid


\* ------------------------------------------------------------------ properties
concepts == dhis2_diff.concepts
mappings == dhis2_diff.mappings
references == dhis2_diff.references

CocCodes == {coc.code : coc \in CategoryOptionCombos}

\* The data element lists a category-option-combo with code c.
Lists(de, c) ==
    /\ "categoryCombo" \in DOMAIN de
    /\ \E j \in DOMAIN de.categoryCombo.categoryOptionCombos :
          de.categoryCombo.categoryOptionCombos[j].code = c

WellFormed(de) == {"code", "categoryCombo", "dataSetElements"} \subseteq DOMAIN de

DisaggregateRecordsFor(c) ==
    {k \in DOMAIN concepts :
        concepts[k].concept_class = "Disaggregate" /\ concepts[k].id = c}

HasOptionMappingsTo(c) ==
    {k \in DOMAIN mappings :
        mappings[k].map_type = "Has Option" /\ mappings[k].to_concept_url = ConceptUrl(c)}

IndicatorsListing(c) ==
    {DataElementsList[n].code : n \in {m \in DOMAIN DataElementsList :
                                          Lists(DataElementsList[m], c)}}

\* C1 as stated: whenever two different data elements list an option-combo
\* with the same code, the transformed snapshot holds exactly one Disaggregate
\* concept record for the code and exactly two "Has Option" mappings to it,
\* one from each of the two indicators.
C1_DeduplicationAsStated ==
    pc = "done" =>
        \A c \in CocCodes : \A m, n \in DOMAIN DataElementsList :
            (m # n /\ Lists(DataElementsList[m], c) /\ Lists(DataElementsList[n], c)) =>
                /\ Cardinality(DisaggregateRecordsFor(c)) = 1
                /\ Cardinality(HasOptionMappingsTo(c)) = 2
                /\ \A i \in {m, n} : \E k \in HasOptionMappingsTo(c) :
                      mappings[k].from_concept_url = ConceptUrl(DataElementsList[i].code)

\* C1 amended: whenever two data elements with different codes list an
\* option-combo with the same code c and no data element has c as its own
\* code, the transformed snapshot holds exactly one Disaggregate concept
\* record for c, stored under c's concept key, and exactly one "Has Option"
\* mapping to it from each indicator that lists it.
C1_Deduplication ==
    pc = "done" =>
        \A c \in CocCodes : \A m, n \in DOMAIN DataElementsList :
            ( /\ DataElementsList[m].code # DataElementsList[n].code
              /\ Lists(DataElementsList[m], c) /\ Lists(DataElementsList[n], c)
              /\ \A i \in DOMAIN DataElementsList : DataElementsList[i].code # c ) =>
                /\ DisaggregateRecordsFor(c) = {ConceptUrl(c)}
                /\ Cardinality(HasOptionMappingsTo(c)) = Cardinality(IndicatorsListing(c))
                /\ {mappings[k].from_concept_url : k \in HasOptionMappingsTo(c)} =
                      {ConceptUrl(code) : code \in IndicatorsListing(c)}
                /\ Cardinality(HasOptionMappingsTo(c)) >= 2

\* Two indicators A and B share the option-combo code C, and both mappings exist.
C1_Witness ==
    /\ pc = "done" /\ run = 1
    /\ Len(DataElementsList) = 2
    /\ DataElementsList[1].code # DataElementsList[2].code
    /\ Lists(DataElementsList[1], "C") /\ Lists(DataElementsList[2], "C")
    /\ Cardinality(HasOptionMappingsTo("C")) = 2
    /\ Cardinality(DisaggregateRecordsFor("C")) = 1

\* The positions (element, option-combo) of the export's option-combos with code c.
Occurrences(c) ==
    {p \in (DOMAIN DataElementsList) \X (1..MaxCocs) :
        /\ "categoryCombo" \in DOMAIN DataElementsList[p[1]]
        /\ p[2] \in DOMAIN DataElementsList[p[1]].categoryCombo.categoryOptionCombos
        /\ DataElementsList[p[1]].categoryCombo.categoryOptionCombos[p[2]].code = c}
Before(p, q) == p[1] < q[1] \/ (p[1] = q[1] /\ p[2] <= q[2])
FirstOccurrence(c) ==
    LET p == CHOOSE p \in Occurrences(c) : \A q \in Occurrences(c) : Before(p, q)
    IN  DataElementsList[p[1]].categoryCombo.categoryOptionCombos[p[2]]

\* C2 as stated: once a Disaggregate concept record is stored under a key, no
\* later step changes or replaces the record under that key.
C2_FirstOccurrenceAsStated ==
    [][\A k \in DOMAIN concepts :
          concepts[k].concept_class = "Disaggregate" =>
              k \in DOMAIN concepts' /\ concepts'[k] = concepts[k]]_vars

\* C2 amended: once a Disaggregate concept record is stored under a key, no
\* option-combo step changes it; the only step that replaces it is the step of
\* a data element whose own code gives that key, which stores its Indicator
\* record there. When no data element has the code, the record at the end of
\* the transform is the one built from the first occurrence.
C2_FirstOccurrence ==
    /\ [][\A k \in DOMAIN concepts :
            concepts[k].concept_class = "Disaggregate" =>
                /\ k \in DOMAIN concepts'
                /\ \/ concepts'[k] = concepts[k]
                   \/ /\ pc = "de" /\ de_idx <= Len(DataElementsList)
                      /\ "code" \in DOMAIN CurDe
                      /\ k = ConceptUrl(CurDe.code)
                      /\ concepts'[k] = IndicatorConcept(CurDe)]_vars
    /\ [](pc = "done" =>
            \A c \in CocCodes :
                ( /\ Occurrences(c) # {}
                  /\ \A i \in DOMAIN DataElementsList : DataElementsList[i].code # c ) =>
                    /\ ConceptUrl(c) \in DOMAIN concepts
                    /\ concepts[ConceptUrl(c)] = DisaggregateConcept(FirstOccurrence(c)))

\* The code C occurs twice with different ids (option-combo 2 in the first
\* element, 3 in the second) and the record of option-combo 2 is the one kept.
C2_Witness ==
    /\ pc = "done"
    /\ Len(DataElementsList) = 2
    /\ Occurrences("C") = {<<1, 1>>, <<2, 1>>}
    /\ DataElementsList[1].categoryCombo.categoryOptionCombos[1].id = <<"coc", 2>>
    /\ DataElementsList[2].categoryCombo.categoryOptionCombos[1].id = <<"coc", 3>>
    /\ concepts[ConceptUrl("C")].external_id = <<"coc", 2>>

\* C3: in every state of the transform, each mapping's from and to concepts
\* and each reference's concept are keys of the concept partition.
C3_ReferentialIntegrity ==
    /\ \A k \in DOMAIN mappings :
          /\ mappings[k].from_concept_url \in DOMAIN concepts
          /\ mappings[k].to_concept_url \in DOMAIN concepts
    /\ \A k \in DOMAIN references :
          references[k].concept_url \in DOMAIN concepts

\* In the middle of the reference loop, with mappings and references stored.
C3_Witness ==
    /\ pc = "ref" /\ run = 1
    /\ Cardinality(DOMAIN mappings) = 2
    /\ Cardinality(DOMAIN references) >= 2

\* The (collection, concept) pairs the export asks references for.
ExpectedReferences ==
    UNION { UNION { { <<ocl_dataset_repos[de.dataSetElements[k].dataSet.id].id, url>> :
                        url \in {ConceptUrl(de.code)} \cup
                                {ConceptUrl(de.categoryCombo.categoryOptionCombos[j].code) :
                                    j \in DOMAIN de.categoryCombo.categoryOptionCombos} } :
                    k \in {l \in DOMAIN de.dataSetElements :
                              de.dataSetElements[l].dataSet.id \in DOMAIN ocl_dataset_repos} } :
            de \in {DataElementsList[n] : n \in DOMAIN DataElementsList} }

ReferenceKeysAsExpected ==
    DOMAIN references =
        {ConceptReferenceKey("PEPFAR", p[1], p[2]) : p \in ExpectedReferences}

\* One element with one option-combo linked to one active dataset.
OneOfEach ==
    /\ Len(DataElementsList) = 1
    /\ Len(DataElementsList[1].categoryCombo.categoryOptionCombos) = 1
    /\ Len(DataElementsList[1].dataSetElements) = 1
    /\ DataElementsList[1].dataSetElements[1].dataSet.id \in DOMAIN ocl_dataset_repos
OneOfEachSameCode ==
    DataElementsList[1].categoryCombo.categoryOptionCombos[1].code = DataElementsList[1].code

\* C4 as stated: after the transform into an empty snapshot the reference keys
\* are exactly those of the expected (collection, concept) pairs, and one
\* element with one option-combo linked to one active dataset yields exactly
\* 2 references.
C4_ReferenceSetAsStated ==
    (pc = "done" /\ run = 1) =>
        /\ ReferenceKeysAsExpected
        /\ OneOfEach => Cardinality(DOMAIN references) = 2

\* C4 amended: the same set of reference keys; one element with one
\* option-combo linked to one active dataset yields exactly 2 references when
\* the option-combo's code differs from the element's code, and 1 when the two
\* codes are equal.
C4_ReferenceSet ==
    (pc = "done" /\ run = 1) =>
        /\ ReferenceKeysAsExpected
        /\ (OneOfEach /\ ~OneOfEachSameCode) => Cardinality(DOMAIN references) = 2
        /\ (OneOfEach /\ OneOfEachSameCode) => Cardinality(DOMAIN references) = 1

\* Two elements linked to the two collections, references in both.
C4_Witness ==
    /\ pc = "done" /\ run = 1
    /\ Len(DataElementsList) = 2
    /\ Cardinality({p[1] : p \in ExpectedReferences}) = 2
    /\ Cardinality(DOMAIN references) = 4

\* C5: the second run of the transform on the same export leaves the three
\* partitions as the first run left them.
C5_Idempotence ==
    (pc = "done" /\ run = 2) => dhis2_diff = first_diff

\* The second run has ended on an export whose second element overwrote the
\* first element's indicator, with mappings and references stored.
C5_Witness ==
    /\ pc = "done" /\ run = 2
    /\ Len(DataElementsList) = 2
    /\ DataElementsList[1].code = DataElementsList[2].code
    /\ DOMAIN mappings # {} /\ DOMAIN references # {}

\* C6 as stated: when the transform fails on a malformed data element, the
\* snapshot is as it was before the call (empty).
C6_MalformedAbortsWholeBatch ==
    pc = "error" => dhis2_diff = EmptyDiff

\* The current link names a dataset that is not in the active dataset table.
AtUnknownDataset ==
    /\ pc = "dse"
    /\ "dataSetElements" \in DOMAIN CurDe
    /\ dse_idx <= Len(CurLinks)
    /\ CurDataSet.id \notin DOMAIN ocl_dataset_repos

\* C7 as stated: the step over a link to an unknown dataset stores nothing,
\* does not fail, and is counted.
C7_UnknownDatasetAsStated ==
    [][AtUnknownDataset =>
          /\ dhis2_diff' = dhis2_diff
          /\ pc' # "error"
          /\ mer_counts' # mer_counts]_vars

\* C7 amended: the step over a link to an unknown dataset stores nothing, goes
\* on to the next link, and changes none of the counts; the transform fails
\* only on a data element that lacks code, categoryCombo or dataSetElements.
C7_UnknownDataset ==
    /\ [][AtUnknownDataset =>
            /\ dhis2_diff' = dhis2_diff
            /\ pc' = "dse" /\ dse_idx' = dse_idx + 1 /\ de_idx' = de_idx
            /\ mer_counts' = mer_counts]_vars
    /\ [](pc = "error" =>
            \E n \in DOMAIN DataElementsList : ~WellFormed(DataElementsList[n]))

\* The transform has returned on an export whose first element is linked to an
\* unknown dataset and then to an active one, whose references are stored.
C7_Witness ==
    /\ pc = "done" /\ run = 1
    /\ Len(DataElementsList) >= 1
    /\ Len(DataElementsList[1].dataSetElements) = 2
    /\ DataElementsList[1].dataSetElements[1].dataSet.id \notin DOMAIN ocl_dataset_repos
    /\ DataElementsList[1].dataSetElements[2].dataSet.id \in DOMAIN ocl_dataset_repos
    /\ DOMAIN references # {}

\* The rows of an I-MAP, the keys a diff classifies.
Keys(imap) == {imap.imap_data[n] : n \in DOMAIN imap.imap_data}

\* C8 as stated: the diff of A against B holds a classification of B's keys
\* into to_create, to_update and unchanged that partitions them, and reports
\* A's other keys as orphaned; a diff of an I-MAP against itself reports every
\* key unchanged.
C8_DiffCompleteness ==
    imap_diff.constructed =>
        LET d == imap_diff.diff_data
            A == Keys(imap_diff.imap_a)
            B == Keys(imap_diff.imap_b)
        IN  /\ d # None
            /\ d.to_create \cup d.to_update \cup d.unchanged = B
            /\ d.to_create \cap d.to_update = {}
            /\ d.to_create \cap d.unchanged = {}
            /\ d.to_update \cap d.unchanged = {}
            /\ d.orphaned = A \ B
            /\ (imap_diff.imap_a = imap_diff.imap_b => d.unchanged = B)

\* C10 as stated: no DatimImap object holds a period outside the allow-list.
C10_PeriodValidation ==
    \A imap \in {imap_a, imap_b} :
        imap.constructed => is_valid_imap_period(imap.period)

\* The script has ended for good.
Terminated == ipc \in {"done", "failed"}

\* C9: the list is submitted at most once and only when it is not empty; the
\* poll starts only with a task id; a report is printed only for results; when
\* the wait budget is used up the poll returns no results and the script ends
\* normally, with the task id printed and no report; the script always ends.
C9_ImportProtocol ==
    /\ [](Len(posted) <= 1)
    /\ [](\A n \in DOMAIN posted : posted[n] # <<>> /\ posted[n] = resource_list)
    /\ [](ipc \in {"poll", "results"} \/ waited > 0 => task_id # None /\ Len(posted) = 1)
    /\ [](waited <= max_wait_seconds)
    /\ [][(ipc = "poll" /\ waited + delay_seconds >= max_wait_seconds) =>
            (ipc' = "results" /\ import_results' = None)]_vars
    /\ [](ipc = "done" /\ task_id # None /\ import_results = None =>
            printed = <<"BULK IMPORT TASK ID">>)
    /\ []("report" \in {printed[n] : n \in DOMAIN printed} => import_results # None)
    /\ <>Terminated
    /\ [][Terminated => Terminated']_vars

\* The poll used up its wait budget and the script ended normally.
C9_Witness ==
    /\ ipc = "done"
    /\ task_id # None
    /\ import_results = None
    /\ waited + delay_seconds >= max_wait_seconds

\* C11: DatimImap.is_valid returns True if and only if the I-MAP data is
\* non-empty and every row contains all nine IMAP_FIELD_NAMES. With
\* throw_exception_on_error=False it never raises and returns False otherwise.
\* With throw_exception_on_error=True it raises as soon as any single row lacks
\* a required field, naming the first missing field in IMAP_FIELD_NAMES order
\* and the 1-based number of the first offending row, and it returns False
\* without raising for empty data. The I-MAP data is left unchanged.
Complete(row) == FieldNameSet \subseteq DOMAIN row
Offending(data) == {n \in DOMAIN data : ~Complete(data[n])}
FirstOffending(data) == CHOOSE n \in Offending(data) : \A m \in Offending(data) : n <= m
FirstMissing(row) ==
    CHOOSE n \in DOMAIN IMAP_FIELD_NAMES :
        /\ IMAP_FIELD_NAMES[n] \notin DOMAIN row
        /\ \A m \in 1..(n - 1) : IMAP_FIELD_NAMES[m] \in DOMAIN row
ConceptCountsAgree == num_indicators + num_disaggregates = Cardinality(DOMAIN concepts)
MappingCountsAgree == num_mappings = Cardinality(DOMAIN mappings)
ReferenceCountsAgree ==
    num_indicator_refs + num_disaggregate_refs = Cardinality(DOMAIN references)

\* C12: after dhis2diff_mer has run on a well-formed export into an empty
\* snapshot, the running counts equal the numbers of records held:
\* num_indicators + num_disaggregates is the number of keys of the concept
\* partition, num_mappings the number of keys of the mapping partition, and
\* num_indicator_refs + num_disaggregate_refs the number of keys of the
\* concept-reference partition.
C12_CountsAgree ==
    ( /\ pc = "done" /\ run = 1
      /\ \A n \in DOMAIN DataElementsList : WellFormed(DataElementsList[n]) ) =>
        /\ ConceptCountsAgree
        /\ MappingCountsAgree
        /\ ReferenceCountsAgree

\* ------------------------------------------------------------------ specifications
\* dhis2diff_mer on every export of Exports, called twice.
Init == MerInit /\ ImapInit /\ ImportInit
Spec == Init /\ [][MerNext]_vars

\* The I-MAP objects.
InitImap == MerIdle /\ ImapInit /\ ImportInit
SpecImap == InitImap /\ [][ImapNext]_vars

\* The import script is one sequential process: it takes its next step as
\* long as it has one.
InitImport == MerIdle /\ ImapInit /\ ImportInit
SpecImport == InitImport /\ [][ImportNext]_vars /\ WF_vars(ImportNext)

\* A DatimImap built from any accepted input, then is_valid called on it.
InitIsValid ==
    /\ MerIdle /\ ImportInit
    /\ \E period \in Periods, imap_data \in ImapDataInputs :
          /\ imap_data.kind # "other"
          /\ imap_a = DatimImap(period, imap_data)
    /\ imap_b = NoImap /\ imap_diff = NoDiff /\ imap_raised = None
    /\ valid_result = NoResult
SpecIsValid == InitIsValid /\ [][IsValid]_vars
====
